---- MODULE Spec2Model ----
(***************************************************************************)
(* Model of IPython/extensions/rmagic.py: the RMagics session bridge       *)
(* (Rpush, Rpull, R, eval, flush, write_console) together with the parts   *)
(* of its collaborators it relies on: the host namespace, the embedded R   *)
(* interpreter's namespace and png device, the temporary directories and   *)
(* the display bus.                                                        *)
(***************************************************************************)
EXTENDS Integers, Sequences, FiniteSets, TLC

\* ------------------------------------------------------------------ bounds
MaxCmds == 2
MaxRuns == 1
MaxLines == 2
MaxNames == 2

\* ------------------------------------------------------------------ state
VARIABLES
  user_ns,        \* shell.user_ns: host namespace
  renv,           \* the interpreter's global namespace
  output,         \* self.output: buffered console chunks
  dirs,           \* temporary directories that exist
  files,          \* page files in each temporary directory
  curdev,         \* directory of the interpreter's open png device, 0 if none
  display,        \* items published on the display bus by the current command
  pc,             \* position inside R, "idle" outside
  lines, return_output, inputs, outputs,   \* the request of the R call
  tmpd, result, images, imgi, flushv, published,   \* locals of R
  cmd, argnames, status, exc, raisedAt, retval, ncmds, nruns,   \* command and outcome
  evalLog,        \* history: the evaluations of the current command
  pre,            \* history: the state when the current command started
  before,         \* history: buffer before the last step
  lastStep,       \* history: the step taken last
  prev,           \* history: the command before the current one, if it was
                  \* an Rpush that returned
  arrived         \* history: the chunks written since the buffer was last drained

prog == <<user_ns, renv, output, dirs, files, curdev, display>>
locals == <<lines, return_output, inputs, outputs, tmpd, result, images, imgi,
            flushv, published>>
outcome == <<cmd, argnames, status, exc, raisedAt, retval, ncmds, nruns>>
history == <<evalLog, pre, before, lastStep, prev, arrived>>
vars == <<prog, pc, locals, outcome, history>>

\* ------------------------------------------------------------------ values
Names == {"x", "y"}

Unbound == [t |-> "unbound", v |-> 0]
PyNone == [t |-> "None", v |-> 0]
PyList(v) == [t |-> "list", v |-> v]
PyObject == [t |-> "object", v |-> 0]
NdArray(v) == [t |-> "ndarray", v |-> v]
NdObjectArray == [t |-> "ndarray_object", v |-> 0]
RVec(v) == [t |-> "rvector", v |-> v]
RNull == [t |-> "rnull", v |-> 0]

\* np.asarray, the default of both converters: lists and R vectors become
\* numeric arrays, arrays are kept, anything else is wrapped as an object array
np_asarray(val) ==
  CASE val.t = "list" -> NdArray(val.v)
    [] val.t = "ndarray" -> val
    [] val.t = "rvector" -> NdArray(val.v)
    [] OTHER -> NdObjectArray

pyconverter(val) == np_asarray(val)

Rconverter(val) == np_asarray(val)

\* ro.conversion.py2ri = numpy2ri, applied by r.assign: numeric arrays become
\* R vectors, object arrays are rejected
numpy2ri_ok(arr) == arr.t = "ndarray"

numpy2ri(arr) == RVec(arr.v)

\* ------------------------------------------------------------ text, chunks
\* A chunk is a sequence of byte tokens: ASCII fragments, or the two bytes
\* "C3" "A9" that together encode one non-ASCII character.
RECURSIVE utf8_valid(_)
utf8_valid(chunk) ==
  IF chunk = <<>> THEN TRUE
  ELSE IF Head(chunk) = "C3"
       THEN Len(chunk) >= 2 /\ chunk[2] = "A9" /\ utf8_valid(Tail(Tail(chunk)))
       ELSE Head(chunk) # "A9" /\ utf8_valid(Tail(chunk))

RECURSIVE utf8_decode(_)
utf8_decode(chunk) ==
  IF chunk = <<>> THEN <<>>
  ELSE IF Head(chunk) = "C3"
       THEN <<"e-acute">> \o utf8_decode(Tail(Tail(chunk)))
       ELSE <<Head(chunk)>> \o utf8_decode(Tail(chunk))

ConsoleChunks == {<<"a">>, <<"C3", "A9">>, <<"C3">>}

\* 'ERROR parsing "%s": %s\n' % (line, msg)
Diagnostic(line, msg) == <<"ERROR parsing \"", line, "\": ", msg, "\n">>

\* -------------------------------------------------------- the interpreter
Lines == {"x <- 3", "y <- 2", "print(x)", "plot(1)", "x <- ("}

\* ri.baseenv['eval'](ri.parse(line)) on the interpreter namespace env:
\* whether it raises RRuntimeError, its message, the value, the namespace
\* afterwards, the chunks written to the console and whether a plot page
\* was rendered
Interp(line, env) ==
  CASE line = "x <- 3" ->
         [error |-> FALSE, msg |-> "", val |-> RVec(3),
          renv |-> [env EXCEPT !["x"] = RVec(3)], console |-> <<>>, plot |-> FALSE]
    [] line = "y <- 2" ->
         [error |-> FALSE, msg |-> "", val |-> RVec(2),
          renv |-> [env EXCEPT !["y"] = RVec(2)], console |-> <<>>, plot |-> FALSE]
    [] line = "print(x)" ->
         IF env["x"] = Unbound
         THEN [error |-> TRUE, msg |-> "object 'x' not found", val |-> RNull,
               renv |-> env, console |-> <<>>, plot |-> FALSE]
         ELSE [error |-> FALSE, msg |-> "", val |-> env["x"], renv |-> env,
               console |-> << <<"[1] ", IF env["x"].v = 1 THEN "1" ELSE "3", "\n">> >>,
               plot |-> FALSE]
    [] line = "plot(1)" ->
         [error |-> FALSE, msg |-> "", val |-> RNull, renv |-> env,
          console |-> <<>>, plot |-> TRUE]
    [] OTHER ->
         [error |-> TRUE, msg |-> "syntax error", val |-> RNull, renv |-> env,
          console |-> <<>>, plot |-> FALSE]

\* ----------------------------------------------------------- the methods
\* RMagics.write_console: append the chunk to the buffer
write_console(out, chunk) == Append(out, chunk)

RECURSIVE write_all(_, _)
write_all(out, chunks) ==
  IF chunks = <<>> THEN out
  ELSE write_all(write_console(out, Head(chunks)), Tail(chunks))

\* eval with the except clause resetting the buffer to the diagnostic
eval_clobber(line, env, out) ==
  LET r == Interp(line, env)
      o == write_all(out, r.console)
  IN IF r.error
     THEN [exc |-> "none", val |-> PyNone, renv |-> r.renv,
           out |-> <<Diagnostic(line, r.msg)>>, plot |-> r.plot]
     ELSE [exc |-> "none", val |-> r.val, renv |-> r.renv, out |-> o,
           plot |-> r.plot]

\* eval without the except clause
eval_reraise(line, env, out) ==
  LET r == Interp(line, env)
      o == write_all(out, r.console)
  IN IF r.error
     THEN [exc |-> "RRuntimeError", val |-> PyNone, renv |-> r.renv, out |-> o,
           plot |-> r.plot]
     ELSE [exc |-> "none", val |-> r.val, renv |-> r.renv, out |-> o,
           plot |-> r.plot]

\* RMagics.eval on buffer out and namespace env
eval(line, env, out) ==
  LET r == Interp(line, env)
      o == write_all(out, r.console)
  IN IF r.error
     THEN [exc |-> "none", val |-> PyNone, renv |-> r.renv,
           out |-> Append(o, Diagnostic(line, r.msg)), plot |-> r.plot]
     ELSE [exc |-> "none", val |-> r.val, renv |-> r.renv, out |-> o,
           plot |-> r.plot]

RECURSIVE join_decoded(_)
join_decoded(out) ==
  IF out = <<>> THEN <<>> ELSE utf8_decode(Head(out)) \o join_decoded(Tail(out))

\* flush without the reset of the buffer
flush_keep(out) ==
  IF \E i \in 1..Len(out) : ~utf8_valid(out[i])
  THEN [exc |-> "UnicodeDecodeError", value |-> <<>>, out |-> out]
  ELSE [exc |-> "none", value |-> join_decoded(out), out |-> out]

\* RMagics.flush: decoding a chunk that is not valid UTF-8 raises before the
\* buffer is reset
flush(out) ==
  IF \E i \in 1..Len(out) : ~utf8_valid(out[i])
  THEN [exc |-> "UnicodeDecodeError", value |-> <<>>, out |-> out]
  ELSE [exc |-> "none", value |-> join_decoded(out), out |-> <<>>]

\* a push that passes over a name the host namespace lacks
push_one_skip(name, ns, env) ==
  IF ns[name] = Unbound
  THEN [exc |-> "none", renv |-> env]
  ELSE IF ~numpy2ri_ok(pyconverter(ns[name]))
       THEN [exc |-> "ValueError", renv |-> env]
       ELSE [exc |-> "none",
             renv |-> [env EXCEPT ![name] = numpy2ri(pyconverter(ns[name]))]]

\* one iteration of the push loop:
\* self.r.assign(input, self.pyconverter(self.shell.user_ns[input]))
push_one(name, ns, env) ==
  IF ns[name] = Unbound
  THEN [exc |-> "KeyError", renv |-> env]
  ELSE IF ~numpy2ri_ok(pyconverter(ns[name]))
       THEN [exc |-> "ValueError", renv |-> env]
       ELSE [exc |-> "none",
             renv |-> [env EXCEPT ![name] = numpy2ri(pyconverter(ns[name]))]]

\* a push loop that assigns every name it can before it raises
RECURSIVE push_all_eager(_, _, _)
push_all_eager(names, ns, env) ==
  IF names = <<>> THEN [exc |-> "none", renv |-> env]
  ELSE LET r == push_one(Head(names), ns, env)
           rest == push_all_eager(Tail(names), ns, r.renv)
       IN IF r.exc # "none" THEN [exc |-> r.exc, renv |-> rest.renv] ELSE rest

RECURSIVE push_all(_, _, _)
push_all(names, ns, env) ==
  IF names = <<>> THEN [exc |-> "none", renv |-> env]
  ELSE LET r == push_one(Head(names), ns, env)
       IN IF r.exc # "none" THEN r ELSE push_all(Tail(names), ns, r.renv)

\* a pull that binds the interpreter's value without converting it
pull_one_raw(name, ns, env) ==
  IF env[name] = Unbound
  THEN [exc |-> "RRuntimeError", ns |-> ns]
  ELSE [exc |-> "none", ns |-> [ns EXCEPT ![name] = env[name]]]

\* a pull that reads the interpreter namespace as it was when the command began
pull_one_stale(name, ns, env) ==
  IF pre.renv[name] = Unbound
  THEN [exc |-> "RRuntimeError", ns |-> ns]
  ELSE [exc |-> "none", ns |-> [ns EXCEPT ![name] = Rconverter(pre.renv[name])]]

\* one iteration of the pull loop:
\* self.shell.push({output: self.Rconverter(self.r(output))})
pull_one(name, ns, env) ==
  IF env[name] = Unbound
  THEN [exc |-> "RRuntimeError", ns |-> ns]
  ELSE [exc |-> "none", ns |-> [ns EXCEPT ![name] = Rconverter(env[name])]]

RECURSIVE pull_all(_, _, _)
pull_all(names, ns, env) ==
  IF names = <<>> THEN [exc |-> "none", ns |-> ns]
  ELSE LET r == pull_one(Head(names), ns, env)
       IN IF r.exc # "none" THEN r ELSE pull_all(Tail(names), r.ns, env)

RECURSIVE convert_all(_)
convert_all(res) ==
  IF res = <<>> THEN <<>>
  ELSE <<Rconverter(Head(res))>> \o convert_all(Tail(res))

Nothing == [kind |-> "None", vals |-> <<>>]

\* a return that does not look at published
return_value_always(ret_out, pub, lns, res) ==
  IF ret_out
  THEN IF Len(lns) > 1 THEN [kind |-> "list", vals |-> convert_all(res)]
       ELSE IF lns # <<>> THEN [kind |-> "value", vals |-> <<Rconverter(res[1])>>]
       ELSE [kind |-> "None", vals |-> <<>>]
  ELSE [kind |-> "None", vals |-> <<>>]

\* the return statement of R
return_value(ret_out, pub, lns, res) ==
  IF ret_out /\ ~pub
  THEN IF Len(lns) > 1 THEN [kind |-> "list", vals |-> convert_all(res)]
       ELSE IF lns # <<>> THEN [kind |-> "value", vals |-> <<Rconverter(res[1])>>]
       ELSE Nothing
  ELSE Nothing


DirIds == 1..MaxRuns

SeqsUpTo(S, n) == UNION {[1..k -> S] : k \in 0..n}

\* name lists without repetition
NameSeqs == {s \in SeqsUpTo(Names, MaxNames) :
               \A i, j \in 1..Len(s) : i # j => s[i] # s[j]}

Range(s) == {s[i] : i \in 1..Len(s)}

\* the orders in which glob may list a set of page files
Listings(S) == {s \in [1..Cardinality(S) -> S] : Range(s) = S}

NoCommand == [cmd |-> "none", status |-> "init", names |-> <<>>,
              user_ns |-> [n \in Names |-> Unbound]]

Init ==
  /\ user_ns \in {[n \in Names |-> IF n = "x" THEN PyList(1) ELSE Unbound],
                  [n \in Names |-> IF n = "x" THEN PyObject ELSE Unbound],
                  [n \in Names |-> IF n = "x" THEN PyList(1) ELSE NdArray(2)]}
  /\ renv = [n \in Names |-> Unbound]
  /\ output = <<>>
  /\ dirs = {}
  /\ files = [d \in DirIds |-> {}]
  /\ curdev = 0
  /\ display = <<>>
  /\ pc = "idle"
  /\ lines = <<>> /\ return_output = FALSE /\ inputs = <<>> /\ outputs = <<>>
  /\ tmpd = 0 /\ result = <<>> /\ images = <<>> /\ imgi = 0 /\ flushv = <<>>
  /\ published = FALSE
  /\ cmd = "none" /\ argnames = <<>> /\ status = "init" /\ exc = "none"
  /\ raisedAt = "none" /\ retval = Nothing /\ ncmds = 0 /\ nruns = 0
  /\ evalLog = <<>>
  /\ pre = [user_ns |-> user_ns, renv |-> renv, output |-> output, dirs |-> dirs,
            curdev |-> curdev]
  /\ before = [out |-> <<>>, arrived |-> <<>>, flushv |-> <<>>]
  /\ lastStep = "none"
  /\ prev = NoCommand
  /\ arrived = <<>>

\* ---------------------------------------------------------------- helpers
Step(name) ==
  /\ lastStep' = name
  /\ before' = [out |-> output, arrived |-> arrived, flushv |-> flushv]

\* a new command is accepted: the previous one has ended
Accepting == pc = "idle" /\ ncmds < MaxCmds

Begin(c, names) ==
  /\ ncmds' = ncmds + 1
  /\ cmd' = c
  /\ argnames' = names
  /\ prev' = IF cmd = "Rpush" /\ status = "returned"
             THEN [cmd |-> cmd, status |-> status, names |-> argnames,
                   user_ns |-> pre.user_ns]
             ELSE NoCommand
  /\ pre' = [user_ns |-> user_ns, renv |-> renv, output |-> output, dirs |-> dirs,
            curdev |-> curdev]
  /\ display' = <<>>

\* a line-level command or a direct method call
BeginCall(c, names) == Begin(c, names) /\ UNCHANGED nruns

Raise(e, at) ==
  /\ status' = "raised" /\ exc' = e /\ raisedAt' = at /\ pc' = "idle"

Return(v) ==
  /\ status' = "returned" /\ exc' = "none" /\ raisedAt' = "none" /\ pc' = "idle"
  /\ retval' = v

LogEntry(line, env, val) ==
  [line |-> line, error |-> Interp(line, env).error, val |-> Interp(line, env).val,
   returned |-> val, plot |-> Interp(line, env).plot]

\* the png device writes one file per rendered page into its directory
PlotFiles(r) ==
  IF r.plot /\ curdev # 0
  THEN [files EXCEPT ![curdev] = @ \cup {Cardinality(@) + 1}]
  ELSE files

\* what evaluating the line sends to the buffer: the console writes of the
\* interpreter, then the diagnostic if it rejects the line
Arrivals(line, env) ==
  Interp(line, env).console \o
    (IF Interp(line, env).error
     THEN <<Diagnostic(line, Interp(line, env).msg)>> ELSE <<>>)

\* ------------------------------------------------------ line-level commands
Call_write_console ==
  /\ Accepting
  /\ \E chunk \in ConsoleChunks :
    /\ BeginCall("write_console", <<>>)
    /\ Step("write_console")
    /\ output' = write_console(output, chunk)
    /\ arrived' = Append(arrived, chunk)
    /\ Return(Nothing)
    /\ evalLog' = <<>>
    /\ UNCHANGED <<user_ns, renv, dirs, files, curdev, locals>>

Call_flush ==
  /\ Accepting
  /\ BeginCall("flush", <<>>)
  /\ Step("flush")
  /\ LET r == flush(output)
     IN /\ output' = r.out
        /\ IF r.exc # "none"
           THEN Raise(r.exc, "flush") /\ UNCHANGED <<flushv, retval, arrived>>
           ELSE Return(Nothing) /\ flushv' = r.value /\ arrived' = <<>>
  /\ evalLog' = <<>>
  /\ UNCHANGED <<user_ns, renv, dirs, files, curdev, lines, return_output, inputs,
                 outputs, tmpd, result, images, imgi, published>>

Call_eval ==
  /\ Accepting
  /\ \E line \in Lines :
    /\ BeginCall("eval", <<>>)
    /\ Step("eval")
    /\ LET r == eval(line, renv, output)
       IN /\ renv' = r.renv
          /\ output' = r.out
          /\ files' = PlotFiles(r)
          /\ evalLog' = <<LogEntry(line, renv, r.val)>>
          /\ IF r.exc # "none"
             THEN Raise(r.exc, "eval") /\ UNCHANGED retval
             ELSE Return([kind |-> "value", vals |-> <<r.val>>])
    /\ arrived' = arrived \o Arrivals(line, renv)
    /\ UNCHANGED <<user_ns, dirs, curdev, locals>>

Call_Rpush ==
  /\ Accepting
  /\ \E names \in NameSeqs \ {<<>>} :
    /\ BeginCall("Rpush", names)
    /\ Step("Rpush")
    /\ LET r == push_all(names, user_ns, renv)
       IN /\ renv' = r.renv
          /\ IF r.exc # "none"
             THEN Raise(r.exc, "Rpush") /\ UNCHANGED retval
             ELSE Return(Nothing)
    /\ evalLog' = <<>>
    /\ UNCHANGED <<user_ns, output, dirs, files, curdev, locals, arrived>>

Call_Rpull ==
  /\ Accepting
  /\ \E names \in NameSeqs \ {<<>>} :
    /\ BeginCall("Rpull", names)
    /\ Step("Rpull")
    /\ LET r == pull_all(names, user_ns, renv)
       IN /\ user_ns' = r.ns
          /\ IF r.exc # "none"
             THEN Raise(r.exc, "Rpull") /\ UNCHANGED retval
             ELSE Return(Nothing)
    /\ evalLog' = <<>>
    /\ UNCHANGED <<renv, output, dirs, files, curdev, locals, arrived>>

\* ------------------------------------------------------------- the R magic
\* lines 169-180: parse the arguments, join args.code and the cell's lines
\* (a cell body always splits into at least one line)
R_Start ==
  /\ Accepting
  /\ nruns < MaxRuns
  /\ \E lns \in SeqsUpTo(Lines, MaxLines), cell_is_none \in BOOLEAN,
        ins \in NameSeqs, outs \in NameSeqs :
    /\ cell_is_none \/ lns # <<>>
    /\ nruns' = nruns + 1
    /\ Begin("R", ins)
    /\ Step("R_start")
    /\ lines' = lns
    /\ return_output' = cell_is_none
    /\ inputs' = ins
    /\ outputs' = outs
    /\ tmpd' = 0 /\ result' = <<>> /\ images' = <<>> /\ imgi' = 0
    /\ flushv' = <<>> /\ published' = FALSE
    /\ status' = "running" /\ exc' = "none" /\ raisedAt' = "none"
    /\ retval' = Nothing
    /\ evalLog' = <<>>
    /\ pc' = "inputs"
    /\ UNCHANGED <<user_ns, renv, output, dirs, files, curdev, arrived>>

\* lines 182-184: assign the -i names into the interpreter
R_Inputs ==
  /\ pc = "inputs"
  /\ Step("R_inputs")
  /\ LET r == push_all(inputs, user_ns, renv)
     IN /\ renv' = r.renv
        /\ IF r.exc # "none"
           THEN Raise(r.exc, "R_inputs")
           ELSE pc' = "png" /\ UNCHANGED <<status, exc, raisedAt>>
  /\ UNCHANGED <<user_ns, output, dirs, files, curdev, display, locals, cmd,
                 argnames, retval, ncmds, nruns, evalLog, pre, prev, arrived>>

\* lines 186-191: make the temporary directory and open the png device in it
R_OpenDevice ==
  \E ok \in BOOLEAN :
    /\ pc = "png"
    /\ Step("R_png")
    /\ tmpd' = nruns
    /\ dirs' = dirs \cup {nruns}
    /\ files' = [files EXCEPT ![nruns] = {}]
    /\ IF ok
       THEN /\ curdev' = nruns
            /\ pc' = IF lines = <<>> THEN "devoff" ELSE "eval"
            /\ UNCHANGED <<status, exc, raisedAt>>
       ELSE /\ Raise("RRuntimeError", "R_png")
            /\ UNCHANGED curdev
    /\ UNCHANGED <<user_ns, renv, output, display, lines, return_output, inputs,
                   outputs, result, images, imgi, flushv, published, cmd, argnames,
                   retval, ncmds, nruns, evalLog, pre, prev, arrived>>

\* line 192: one iteration of [self.eval(line) for line in lines]
R_EvalLine ==
  /\ pc = "eval"
  /\ Step("R_eval")
  /\ LET line == lines[Len(result) + 1]
         r == eval(line, renv, output)
     IN /\ renv' = r.renv
        /\ output' = r.out
        /\ files' = PlotFiles(r)
        /\ evalLog' = Append(evalLog, LogEntry(line, renv, r.val))
        /\ arrived' = arrived \o Arrivals(line, renv)
        /\ IF r.exc # "none"
           THEN Raise(r.exc, "R_eval") /\ UNCHANGED result
           ELSE /\ result' = Append(result, r.val)
                /\ pc' = IF Len(result) + 1 = Len(lines) THEN "devoff" ELSE "eval"
                /\ UNCHANGED <<status, exc, raisedAt>>
  /\ UNCHANGED <<user_ns, dirs, curdev, display, lines, return_output, inputs,
                 outputs, tmpd, images, imgi, flushv, published, cmd, argnames,
                 retval, ncmds, nruns, pre, prev>>

\* line 193: self.r('dev.off()')
R_DevOff ==
  \E ok \in BOOLEAN :
    /\ pc = "devoff"
    /\ Step("R_devoff")
    /\ IF ok
       THEN curdev' = 0 /\ pc' = "glob" /\ UNCHANGED <<status, exc, raisedAt>>
       ELSE Raise("RRuntimeError", "R_devoff") /\ UNCHANGED curdev
    /\ UNCHANGED <<user_ns, renv, output, dirs, files, display, locals, cmd,
                   argnames, retval, ncmds, nruns, evalLog, pre, prev, arrived>>

\* line 197: read the page files in the order glob lists them
R_Glob ==
  /\ pc = "glob"
  /\ Step("R_glob")
  /\ \E listing \in Listings(files[tmpd]) : images' = listing
  /\ pc' = "flush"
  /\ UNCHANGED <<prog, lines, return_output, inputs, outputs, tmpd, result, imgi,
                 flushv, published, outcome, evalLog, pre, prev, arrived>>

\* lines 205-207: drain the buffer
R_Flush ==
  /\ pc = "flush"
  /\ Step("R_flush")
  /\ published' = FALSE
  /\ LET r == flush(output)
     IN /\ output' = r.out
        /\ IF r.exc # "none"
           THEN Raise(r.exc, "R_flush") /\ UNCHANGED <<flushv, arrived>>
           ELSE /\ flushv' = r.value
                /\ arrived' = <<>>
                /\ pc' = "pubtext"
                /\ UNCHANGED <<status, exc, raisedAt>>
  /\ UNCHANGED <<user_ns, renv, dirs, files, curdev, display, lines, return_output,
                 inputs, outputs, tmpd, result, images, imgi, cmd, argnames, retval,
                 ncmds, nruns, evalLog, pre, prev>>

TextItem(text) == [source |-> "RMagic.R", mime |-> "text/plain", text |-> text, page |-> 0]

ImageItem(page) == [source |-> "RMagic.R", mime |-> "image/png", text |-> <<>>, page |-> page]

AfterText == IF images = <<>> THEN "outputs" ELSE "pubimg"

\* lines 208-210: publish the drained text, if any
R_PublishText ==
  \E ok \in BOOLEAN :
    /\ pc = "pubtext"
    /\ Step("R_pubtext")
    /\ IF flushv # <<>>
       THEN /\ published' = TRUE
            /\ IF ok
               THEN /\ display' = Append(display, TextItem(flushv))
                    /\ pc' = AfterText
                    /\ UNCHANGED <<status, exc, raisedAt>>
               ELSE Raise("PublishError", "R_pubtext") /\ UNCHANGED display
       ELSE /\ ok
            /\ pc' = AfterText
            /\ UNCHANGED <<published, display, status, exc, raisedAt>>
    /\ UNCHANGED <<user_ns, renv, output, dirs, files, curdev, lines, return_output,
                   inputs, outputs, tmpd, result, images, imgi, flushv, cmd, argnames,
                   retval, ncmds, nruns, evalLog, pre, prev, arrived>>

\* lines 213-220: one iteration of the loop that publishes the images
R_PublishImage ==
  \E ok \in BOOLEAN :
    /\ pc = "pubimg"
    /\ Step("R_pubimg")
    /\ published' = TRUE
    /\ imgi' = imgi + 1
    /\ IF ok
       THEN /\ display' = Append(display, ImageItem(images[imgi + 1]))
            /\ pc' = IF imgi + 1 = Len(images) THEN "outputs" ELSE "pubimg"
            /\ UNCHANGED <<status, exc, raisedAt>>
       ELSE Raise("PublishError", "R_pubimg") /\ UNCHANGED display
    /\ UNCHANGED <<user_ns, renv, output, dirs, files, curdev, lines, return_output,
                   inputs, outputs, tmpd, result, images, flushv, cmd, argnames,
                   retval, ncmds, nruns, evalLog, pre, prev, arrived>>

\* lines 227-230: bind the -o names in the host namespace
R_Outputs ==
  /\ pc = "outputs"
  /\ Step("R_outputs")
  /\ LET r == pull_all(outputs, user_ns, renv)
     IN /\ user_ns' = r.ns
        /\ IF r.exc # "none"
           THEN Raise(r.exc, "R_outputs")
           ELSE pc' = "rmtree" /\ UNCHANGED <<status, exc, raisedAt>>
  /\ UNCHANGED <<renv, output, dirs, files, curdev, display, locals, cmd, argnames,
                 retval, ncmds, nruns, evalLog, pre, prev, arrived>>

\* lines 233-243: rmtree(tmpd), then the value handed back to the caller
R_Return ==
  /\ pc = "rmtree"
  /\ Step("R_return")
  /\ dirs' = dirs \ {tmpd}
  /\ files' = [files EXCEPT ![tmpd] = {}]
  /\ Return(return_value(return_output, published, lines, result))
  /\ UNCHANGED <<user_ns, renv, output, curdev, display, locals, cmd, argnames,
                 ncmds, nruns, evalLog, pre, prev, arrived>>

Next ==
  \/ Call_write_console
  \/ Call_flush
  \/ Call_eval
  \/ Call_Rpush
  \/ Call_Rpull
  \/ R_Start
  \/ R_Inputs
  \/ R_OpenDevice
  \/ R_EvalLine
  \/ R_DevOff
  \/ R_Glob
  \/ R_Flush
  \/ R_PublishText
  \/ R_PublishImage
  \/ R_Outputs
  \/ R_Return

Spec == Init /\ [][Next]_vars

\* the session driven by the line-level commands and method calls alone
NextCalls ==
  \/ Call_write_console
  \/ Call_flush
  \/ Call_eval
  \/ Call_Rpush
  \/ Call_Rpull

SpecCalls == Init /\ [][NextCalls]_vars

\* ---------------------------------------------------------------- claims
Last(s) == s[Len(s)]

InR == cmd = "R"

Ended == pc = "idle" /\ status \in {"returned", "raised"}

\* C1: when an R call has ended, by returning or by raising after it made its
\* temporary directory, that directory no longer exists.
C1_TempDirRemoved ==
  (InR /\ Ended /\ tmpd # 0) => tmpd \notin dirs

IsDiagnosticOf(chunk, line) ==
  /\ chunk # <<>>
  /\ chunk[1] = "ERROR parsing \""
  /\ \E i \in 1..Len(chunk) : chunk[i] = line

EvalStepped == lastStep \in {"eval", "R_eval"}

\* C2: eval of a line the interpreter rejects does not raise, returns None,
\* appends one diagnostic naming the line and keeps the chunks buffered before.
C2_EvalSwallowsRejection ==
  (EvalStepped /\ Last(evalLog).error) =>
    /\ ~(status = "raised" /\ raisedAt = lastStep)
    /\ Last(evalLog).returned = PyNone
    /\ Len(output) = Len(before.out) + 1
    /\ SubSeq(output, 1, Len(before.out)) = before.out
    /\ IsDiagnosticOf(Last(output), Last(evalLog).line)

C2_Witness ==
  /\ EvalStepped /\ Last(evalLog).error
  /\ before.out # <<>>
  /\ Len(output) = Len(before.out) + 1

Converted(log) == [i \in 1..Len(log) |-> Rconverter(log[i].val)]

\* C3: an R call that returns hands back, in line form with nothing published,
\* the converted value of its single line, the list of converted values of its
\* several lines, or None for no line; otherwise None.
C3_ReturnPolicy ==
  (InR /\ Ended /\ status = "returned") =>
    retval = IF return_output /\ display = <<>>
             THEN IF Len(lines) = 1
                  THEN [kind |-> "value", vals |-> <<Rconverter(evalLog[1].val)>>]
                  ELSE IF Len(lines) > 1
                       THEN [kind |-> "list", vals |-> Converted(evalLog)]
                       ELSE Nothing
             ELSE Nothing

C3_Witness ==
  /\ InR /\ Ended /\ status = "returned"
  /\ retval.kind = "list"
  /\ retval.vals[1] # retval.vals[2]

PagesRendered == Cardinality({i \in 1..Len(evalLog) : evalLog[i].plot})

\* C4: an R call that returns has published the drained text, if not empty,
\* as one text item, followed by one image item per rendered page in page order.
C4_DisplaySequence ==
  (InR /\ Ended /\ status = "returned") =>
    display = (IF flushv # <<>> THEN <<TextItem(flushv)>> ELSE <<>>)
                \o [i \in 1..PagesRendered |-> ImageItem(i)]

PushRejects(name) ==
  user_ns[name] = Unbound \/ ~numpy2ri_ok(pyconverter(user_ns[name]))

FirstRejected(names) ==
  CHOOSE i \in 1..Len(names) :
    PushRejects(names[i]) /\ \A j \in 1..(i - 1) : ~PushRejects(names[j])

\* C5: a push (Rpush or the -i names) of a name that is missing from the host
\* namespace or not convertible, and a pull (Rpull or the -o names) of a name
\* the interpreter does not know, raise to the caller and buffer no text.
C5_FailuresPropagate ==
  /\ (lastStep \in {"Rpush", "R_inputs"} /\ \E n \in Range(argnames) : PushRejects(n)) =>
       /\ status = "raised" /\ raisedAt = lastStep
       /\ exc = IF user_ns[argnames[FirstRejected(argnames)]] = Unbound
                THEN "KeyError" ELSE "ValueError"
       /\ output = before.out
  /\ (lastStep = "Rpull" /\ \E n \in Range(argnames) : renv[n] = Unbound) =>
       /\ status = "raised" /\ raisedAt = lastStep /\ exc = "RRuntimeError"
       /\ output = before.out
  /\ (lastStep = "R_outputs" /\ \E n \in Range(outputs) : renv[n] = Unbound) =>
       /\ status = "raised" /\ raisedAt = lastStep /\ exc = "RRuntimeError"
       /\ output = before.out

C5_Witness ==
  /\ lastStep = "R_inputs" /\ status = "raised" /\ exc = "ValueError"
  /\ Len(inputs) = 2

RoundTrip(val) == Rconverter(numpy2ri(pyconverter(val)))

PushedThenPulled ==
  /\ cmd = "Rpull" /\ status = "returned"
  /\ prev.cmd = "Rpush"
  /\ Range(prev.names) = Range(argnames)

\* C6: after Rpush of names present in the host namespace and Rpull of the
\* same names, each of them is bound to its value converted there and back,
\* and the other host names are as before.
C6_PushPullRoundTrip ==
  PushedThenPulled =>
    \A n \in Names :
      user_ns[n] = IF n \in Range(argnames)
                   THEN RoundTrip(prev.user_ns[n]) ELSE prev.user_ns[n]

C6_Witness ==
  /\ PushedThenPulled
  /\ Cardinality(Range(argnames)) = 2
  /\ user_ns # prev.user_ns

Drained == lastStep \in {"flush", "R_flush"} /\ ~(status = "raised" /\ raisedAt = lastStep)

\* C7: a drain returns the decoded chunks that arrived since the previous
\* drain, in order, and empties the buffer, so a drain right after a drain
\* returns empty text; an R call that returns leaves the buffer drained.
C7_DrainReadAndClear ==
  /\ Drained =>
       /\ flushv = join_decoded(before.arrived)
       /\ output = <<>>
       /\ (before.arrived = <<>> => flushv = <<>>)
  /\ (InR /\ Ended /\ status = "returned") => (output = <<>> /\ arrived = <<>>)

C7_Witness ==
  /\ lastStep = "flush" /\ status = "returned"
  /\ before.flushv # <<>> /\ before.arrived = <<>>
  /\ flushv = <<>>

PastEval ==
  \/ pc \in {"devoff", "glob", "flush", "pubtext", "pubimg", "outputs", "rmtree"}
  \/ (Ended /\ raisedAt \notin {"R_inputs", "R_png", "R_eval"})

\* C8: in an R call the lines are evaluated once each, in order, none is
\* skipped after a rejected one, and result holds at each position the value
\* of that line, or None if it was rejected.
C8_EveryLineOnceInOrder ==
  InR =>
    /\ raisedAt # "R_eval"
    /\ Len(evalLog) <= Len(lines)
    /\ Len(result) = Len(evalLog)
    /\ \A i \in 1..Len(evalLog) :
         /\ evalLog[i].line = lines[i]
         /\ result[i] = IF evalLog[i].error THEN PyNone ELSE evalLog[i].val
    /\ (PastEval => Len(evalLog) = Len(lines))
    /\ (pc = "eval" => Len(evalLog) < Len(lines))

C8_Witness ==
  /\ InR /\ PastEval
  /\ Len(lines) = 2
  /\ evalLog[1].error /\ ~evalLog[2].error
  /\ result[1] = PyNone /\ result[2] # PyNone

BeforeOutputs ==
  pc \in {"inputs", "png", "eval", "devoff", "glob", "flush", "pubtext", "pubimg", "outputs"}

\* C9: the -o names are pulled once every line has been evaluated: the host
\* namespace is untouched until then, and when the call returns each -o name
\* is bound to the converted value the interpreter holds at the end.
C9_OutputsAfterEvaluation ==
  InR =>
    /\ (BeforeOutputs => user_ns = pre.user_ns)
    /\ (lastStep = "R_outputs" => Len(evalLog) = Len(lines))
    /\ (Ended /\ status = "returned") =>
         \A n \in Range(outputs) : user_ns[n] = Rconverter(renv[n])

C9_Witness ==
  /\ InR /\ Ended /\ status = "returned"
  /\ "x" \in Range(outputs)
  /\ pre.renv["x"] = RVec(1)
  /\ user_ns["x"] = NdArray(3)

MissingInput == \E n \in Range(inputs) : pre.user_ns[n] = Unbound

FirstMissing ==
  CHOOSE i \in 1..Len(inputs) :
    pre.user_ns[inputs[i]] = Unbound /\ \A j \in 1..(i - 1) : pre.user_ns[inputs[j]] # Unbound

\* C10: an R call with a -i name missing from the host namespace raises while
\* assigning the inputs: no directory, no device, no evaluation, no drain, no
\* display item and no host binding; only -i names before the missing one
\* were assigned in the interpreter.
C10_MissingInputAbortsEarly ==
  (InR /\ pc # "inputs" /\ MissingInput) =>
    /\ status = "raised" /\ raisedAt = "R_inputs"
    /\ tmpd = 0 /\ dirs = pre.dirs /\ curdev = pre.curdev
    /\ evalLog = <<>> /\ result = <<>>
    /\ output = pre.output /\ arrived = before.arrived
    /\ display = <<>>
    /\ user_ns = pre.user_ns
    /\ \A n \in Names :
         renv[n] # pre.renv[n] =>
           /\ \E i \in 1..(FirstMissing - 1) : inputs[i] = n
           /\ renv[n] = numpy2ri(pyconverter(user_ns[n]))

C10_Witness ==
  /\ InR /\ MissingInput /\ status = "raised" /\ exc = "KeyError"
  /\ renv # pre.renv

====
